---- MODULE Spec2Model ----
(***************************************************************************)
(* The execution worker of the contest platform (runner service): the     *)
(* poll loop and processJob of the worker entry point, processSubmission   *)
(* of executor.ts, the signer of crypto.ts, the key loading of config.ts   *)
(* and the signal handlers.  The container runtime, the job queue and the  *)
(* result sink are the environment: every call to them may succeed or      *)
(* fail.                                                                   *)
(* The backend's request handlers that read and then write the database    *)
(* (token refresh and logout, submission, leaderboard, finalization,       *)
(* verdict update), one action per awaited call.                           *)
(***************************************************************************)
EXTENDS Integers, Sequences, FiniteSets, TLC

VARIABLES
    proc,              \* "starting" | "running" | "exited": the worker process
    exitCode,          \* process exit status, -1 while the process lives
    queue,             \* jobs waiting in the external queue, head first
    jobs,              \* one record per job handed to processJob, in order
    containers,        \* the runtime's containers, by container name
    activeContainers,  \* the worker's Map of tracked containers (its key set)
    sent,              \* the requests issued to the result sink
    unhandled,         \* promises of processJob that ended rejected
    CONCURRENCY,       \* config.concurrency, read from the environment
    lastFetch,         \* the worker's latest exchange with the registry or the
                       \* queue: <<endpoint, outcome>>
    signalled,         \* a SIGTERM or SIGINT handler has been entered
    secrets,           \* the key files of the secret storage
    config,            \* config.privateKey and config.publicKey of the process
    starts,            \* how many times the worker process has been started
    registered,        \* the registrations the registry received for RUNNER_ID
    db,                \* the backend's database tables
    redis,             \* the keys set in the backend's cache
    requests,          \* the backend's requests in flight and answered
    now,               \* the backend's clock
    scheduler,         \* the clock reading of the contest scheduler's latest
                       \* run, -1 before the first
    store              \* the frontend's submission state

keyVars == <<secrets, config, starts, registered>>

backendVars == <<db, redis, requests, now>>

serviceVars == <<scheduler, store>>

vars == <<proc, exitCode, queue, jobs, containers, activeContainers,
          sent, unhandled, CONCURRENCY, lastFetch, signalled, keyVars,
          backendVars, serviceVars>>

----------------------------------------------------------------------------
(* Bounds of the model *)

MaxQueue == 2          \* jobs the external queue holds at the start
MaxElapsed == 2000     \* the measured execution time saturates here (ms)
TickMs == 1000         \* granularity of time (ms)
MaxStarts == 3         \* starts of the worker process
MaxRequests == 2       \* requests the backend handles concurrently
MaxNow == 4            \* the backend's clock stops here (s)

(* Configuration and program constants *)

\* parseInt(process.env.CONCURRENCY || '4', 10): any integer the environment
\* gives; what matters is whether it is positive.
ConcurrencyValues == {0, 1}
GraceMs == 2000        \* the buffer added to job.timeLimit for the kill timer
KilledStatus == 137    \* exit status of a SIGKILLed container
FullScore == 100
BytesPerMB == 1048576  \* 1024 * 1024
OutputLimit == 10000   \* characters of output and of error kept in a result
maxMemory == 536870912 \* config.maxMemory: parseInt(MAX_MEMORY || '536870912')
RUNNER_ID == "runner-1"

NoNum == -1            \* an absent (undefined) numeric field

SubmissionIds == {1, 2}

LanguageKeys == {"cpp", "java", "python", "javascript", "go", "rust"}

\* Names every object literal inherits from Object.prototype: indexing
\* LANGUAGE_CONFIG with one of them yields a (truthy) inherited member.
ObjectPrototypeKeys == {"constructor", "toString", "__proto__"}

\* LANGUAGE_CONFIG without the profile of python.
LANGUAGE_CONFIGWithoutPython(language) ==
    IF language \in LanguageKeys \ {"python"} THEN "profile"
    ELSE IF language \in ObjectPrototypeKeys THEN "inherited"
    ELSE "undefined"

\* What LANGUAGE_CONFIG[language] evaluates to.
LANGUAGE_CONFIG(language) ==
    IF language \in LanguageKeys THEN "profile"
    ELSE IF language \in ObjectPrototypeKeys THEN "inherited"
    ELSE "undefined"

----------------------------------------------------------------------------
(* Jobs.  job.code is abstracted by what the program does when run:        *)
(* whether it ends on its own, its exit status, the memory usage the       *)
(* runtime reports for it when asked after the run (NoNum: the stats carry *)
(* no usage), the peak of its memory use during the run (below the         *)
(* container's ceiling config.maxMemory unless the exit status is that of  *)
(* a kill) and what it writes to stderr (a sequence of words).             *)
(* isString = FALSE is a job whose code field is not a string.             *)
(* A text is a sequence of words.  LongWord is a word of OutputLimit        *)
(* characters; every other word is counted as one character, the least it  *)
(* can have.                                                               *)

LongWord == "x * 10000"

RECURSIVE TextLen(_)
TextLen(text) ==
    IF text = <<>> THEN 0
    ELSE (IF Head(text) = LongWord THEN OutputLimit ELSE 1) + TextLen(Tail(text))

\* text.slice(0, n): the longest prefix of text of at most n characters (a
\* word the cut falls into is dropped whole).
slice(text, n) ==
    SubSeq(text, 1,
           CHOOSE k \in 0..Len(text) :
               /\ TextLen(SubSeq(text, 1, k)) <= n
               /\ k < Len(text) => TextLen(SubSeq(text, 1, k + 1)) > n)

Program(isString, loops, exit, mem, peak, stderr) ==
    [isString |-> isString, loops |-> loops, exit |-> exit, mem |-> mem,
     peak |-> peak, stderr |-> stderr]

StderrTexts ==
    { <<>>, <<"SyntaxError">>, <<"x", "Compilation", "error">>,
      <<"error", "Compilation">> }

ProgramsWide ==
    { Program(TRUE, FALSE, e, mp[1], mp[2], s) :
        e \in {0, 1, KilledStatus},
        mp \in { x \in {NoNum, BytesPerMB, BytesPerMB + 1}
                         \X {BytesPerMB, BytesPerMB + 1} : x[1] <= x[2] },
        s \in StderrTexts }
    \cup { Program(TRUE, TRUE, 0, 0, 0, <<>>),
           Program(FALSE, FALSE, 0, 0, 0, <<>>),
           Program(TRUE, FALSE, 1, BytesPerMB, BytesPerMB,
                   <<LongWord, "SyntaxError">>) }

Job(id, language, code, timeLimit, memoryLimit) ==
    [submissionId |-> id, language |-> language, code |-> code,
     timeLimit |-> timeLimit, memoryLimit |-> memoryLimit]

\* One job of any shape.
JobsWide ==
    { Job(1, "python", c, 1000, 1) : c \in ProgramsWide }
    \cup { Job(1, l, Program(TRUE, FALSE, 0, 0, 0, <<>>), 1000, 1) :
             l \in {"cobol", "constructor", LongWord} }

\* Several jobs, possibly the same submission delivered twice.
JobsNarrow ==
    { Job(1, "python", Program(TRUE, FALSE, 0, 0, 0, <<>>), 1000, 1),
      Job(2, "python", Program(TRUE, TRUE, 0, 0, 0, <<>>), 1000, 2) }

RECURSIVE SeqsOf(_, _)
SeqsOf(S, n) ==
    IF n = 0 THEN { <<>> }
    ELSE { <<x>> \o s : x \in S, s \in SeqsOf(S, n - 1) }

\* The queue at the start: one job of any shape, or MaxQueue of the
\* narrow jobs.
Queues ==
    { <<j>> : j \in JobsWide } \cup SeqsOf(JobsNarrow, MaxQueue)

\* The queue at the start for the properties of one job's processing: one
\* job of any shape, or the looping job with one more job behind it.
JobQueues ==
    { <<j>> : j \in JobsWide }
    \cup { <<Job(2, "python", Program(TRUE, TRUE, 0, 0, 0, <<>>), 1000, 2), j>> :
              j \in JobsNarrow }

----------------------------------------------------------------------------
(* Results, their serialization and their signature *)

\* The ExecutionResult of a run that reached the classification.  The
\* programs of the model write to stderr only: output is the cut of the
\* empty text.
ExecutionResult(job, verdict, score, executionTime, memoryUsed, errorOutput) ==
    [keys |-> <<"submissionId", "verdict", "score", "executionTime",
                "memoryUsed", "testCasesPassed", "totalTestCases", "output",
                "error">>,
     submissionId |-> job.submissionId, verdict |-> verdict, score |-> score,
     executionTime |-> executionTime, memoryUsed |-> memoryUsed,
     testCasesPassed |-> IF verdict = "ACCEPTED" THEN 1 ELSE 0,
     totalTestCases |-> 1, output |-> slice(<<>>, OutputLimit),
     error |-> slice(errorOutput, OutputLimit)]

\* The three-field SYSTEM_ERROR object literal (no score, times or counters).
SystemError(submissionId, message) ==
    [keys |-> <<"submissionId", "verdict", "error">>,
     submissionId |-> submissionId, verdict |-> "SYSTEM_ERROR",
     error |-> message]

\* JSON.stringify of an object: its own keys in insertion order, each with
\* its value.
JSONstringify(obj) ==
    [k \in 1..Len(obj.keys) |-> <<obj.keys[k], obj[obj.keys[k]]>>]

\* The value a serialized object gives for a key, as a set (empty: no
\* such key).
Field(text, key) == { text[k][2] : k \in { i \in DOMAIN text : text[i][1] = key } }

\* signer.sign(data): a signature is made with one key over one text.
sign(key, data) == [key |-> key, data |-> data]

\* One half of a key pair.  Pairs are numbered: those stored in key files
\* by StoredPairs, the pair generated by the n-th start of the worker by n.
Key(pair, half) == [pair |-> pair, half |-> half]

StoredPairs == {101, 102}

\* generateKeyPair() of the n-th start: a pair no other call produces.
generateKeyPair(n) ==
    [privateKey |-> Key(n, "private"), publicKey |-> Key(n, "public")]

\* A key file: the set of its contents, empty when the file is missing.
KeyFiles(half) == { {} } \cup { {Key(p, half)} : p \in StoredPairs }

SecretStores ==
    { [private |-> f, public |-> g] :
        f \in KeyFiles("private"), g \in KeyFiles("public") }

\* loadConfig() of the n-th start: both key files are read; when a read
\* throws the catch block takes a generated pair.  Nothing is written.
loadConfig(files, n) ==
    IF files.private # {} /\ files.public # {}
        THEN [privateKey |-> CHOOSE k \in files.private : TRUE,
              publicKey |-> CHOOSE k \in files.public : TRUE]
        ELSE generateKeyPair(n)

\* createSigner(config.privateKey)
privateKey == config.privateKey

\* The public half of the worker's key pair, sent at registration.
publicKey == config.publicKey

KeyPairs ==
    { <<Key(p, "private"), Key(p, "public")>> :
        p \in StoredPairs \cup (1..MaxStarts) }

\* signer.verify(data, signature, publicKey): the signature was made over
\* this very text with the private key of this public key.
verify(data, signature, key) ==
    /\ <<signature.key, key>> \in KeyPairs
    /\ signature.data = data

\* signedResult with the signature computed over the result with runnerId
\* already added.
signedResultSignsPayload(result) ==
    [keys |-> result.keys \o <<"runnerId", "signature">>]
    @@ ("runnerId" :> RUNNER_ID)
    @@ ("signature" :> sign(privateKey,
            JSONstringify([keys |-> result.keys \o <<"runnerId">>]
                          @@ ("runnerId" :> RUNNER_ID) @@ result)))
    @@ result

\* The object literal of processJob's try block:
\* {...result, runnerId: RUNNER_ID, signature: signer.sign(JSON.stringify(result))}
signedResult(result) ==
    [keys |-> result.keys \o <<"runnerId", "signature">>]
    @@ ("runnerId" :> RUNNER_ID)
    @@ ("signature" :> sign(privateKey, JSONstringify(result)))
    @@ result

\* A request to /api/runner/result issued for the d-th job: its body and
\* its X-Runner-Signature header (a set, empty when the header is not set).
Request(d, obj, header) ==
    [delivery |-> d, body |-> JSONstringify(obj), header |-> header]

\* The request of processJob's try block.
ReportRequest(d, result) ==
    Request(d, signedResult(result), {signedResult(result).signature})

\* The request of processJob's catch block.
ErrorRequest(d, submissionId, message) ==
    Request(d, SystemError(submissionId, message), {})

----------------------------------------------------------------------------
(* The container runtime.  A container is known by its name,               *)
(* submission-<submissionId>; the handle createContainer returns names the *)
(* container by its id, modelled as the job (index into jobs) that created *)
(* it.  memory is HostConfig.Memory, the container's hard memory ceiling.  *)

Absent == [status |-> "absent", owner |-> 0, exit |-> NoNum, memory |-> NoNum]

\* The container a job's handle refers to still exists.
Owns(d, cs) ==
    /\ cs[jobs[d].job.submissionId].status # "absent"
    /\ cs[jobs[d].job.submissionId].owner = d

ContainerStatus(d) ==
    IF Owns(d, containers) THEN containers[jobs[d].job.submissionId].status
    ELSE "absent"

----------------------------------------------------------------------------
(* processSubmission: the classification of a run that raised nothing *)

\* errorOutput.includes(pattern) on the words of the text.
includes(text, pattern) ==
    \E i \in 0..(Len(text) - Len(pattern)) :
        \A k \in 1..Len(pattern) : text[i + k] = pattern[k]

\* Verdict with the memory rule tried before the time rule.
VerdictMemoryFirst(statusCode, executionTime, memoryUsed, errorOutput, job) ==
    IF memoryUsed > job.memoryLimit * BytesPerMB
        THEN "MEMORY_LIMIT_EXCEEDED"
    ELSE IF statusCode = KilledStatus \/ executionTime > job.timeLimit
        THEN "TIME_LIMIT_EXCEEDED"
    ELSE IF statusCode # 0
        THEN IF \/ includes(errorOutput, <<"Compilation", "error">>)
                \/ includes(errorOutput, <<"SyntaxError">>)
             THEN "COMPILATION_ERROR"
             ELSE "RUNTIME_ERROR"
    ELSE "ACCEPTED"

Verdict(statusCode, executionTime, memoryUsed, errorOutput, job) ==
    IF statusCode = KilledStatus \/ executionTime > job.timeLimit
        THEN "TIME_LIMIT_EXCEEDED"
    ELSE IF memoryUsed > job.memoryLimit * BytesPerMB
        THEN "MEMORY_LIMIT_EXCEEDED"
    ELSE IF statusCode # 0
        THEN IF \/ includes(errorOutput, <<"Compilation", "error">>)
                \/ includes(errorOutput, <<"SyntaxError">>)
             THEN "COMPILATION_ERROR"
             ELSE "RUNTIME_ERROR"
    ELSE "ACCEPTED"

Score(verdict) == IF verdict = "ACCEPTED" THEN FullScore ELSE 0

\* stats.memory_stats?.usage || 0
MemoryUsage(usage) == IF usage = NoNum THEN 0 ELSE usage

----------------------------------------------------------------------------
(* The state of one job handed to processJob.                              *)
(*   pc: the call the job's task awaits: "createContainer", "putArchive",  *)
(*       "start", "logs", "wait", "stats", "remove" (the try block of      *)
(*       processSubmission), "catchRemove" (its catch block), "report"     *)
(*       (the fetch of processJob's try block), "errorReport" (the fetch   *)
(*       of its catch block), "done" (the task ended), "rejected" (the     *)
(*       task ended with its promise rejected)                             *)
(*   elapsed: time since startTime while the task is in container.wait();  *)
(*   statusCode, executionTime, memoryUsed: the locals of processSubmission *)
(*   timer: the kill timer ("unset", "armed", "fired": the callback ran    *)
(*       and called container.kill, "cleared"); timerLeft: time until due  *)

Task(job, pc) ==
    [job |-> job, pc |-> pc, elapsed |-> 0, timer |-> "unset", timerLeft |-> 0,
     statusCode |-> NoNum, executionTime |-> NoNum, memoryUsed |-> NoNum]

\* The locals of processSubmission are gone when it returns.
Locals(t) ==
    [t EXCEPT !.elapsed = 0, !.statusCode = NoNum, !.executionTime = NoNum,
              !.memoryUsed = NoNum]

Alive == proc # "exited"

\* process.exit(status): the process and all it held in memory (its tasks
\* and timers, its pending polls) are gone; the containers, the queue and
\* what the sink received stay.
exit(status) ==
    /\ proc' = "exited"
    /\ exitCode' = status
    /\ jobs' = <<>>

InProcessSubmission ==
    {"createContainer", "putArchive", "start", "logs", "wait", "stats",
     "remove", "catchRemove"}

Min(a, b) == IF a < b THEN a ELSE b
Max(a, b) == IF a > b THEN a ELSE b

Name(d) == jobs[d].job.submissionId

\* processSubmission returned result to processJob, which signs it and
\* issues the report request.
Returned(d, result) ==
    /\ jobs' = [jobs EXCEPT ![d] = [Locals(jobs[d]) EXCEPT !.pc = "report"]]
    /\ sent' = sent \cup {ReportRequest(d, result)}

\* A call of the try block threw: the catch block logs and asks the
\* runtime to remove the container of that name.
Thrown(d) ==
    /\ jobs' = [jobs EXCEPT ![d].pc = "catchRemove"]
    /\ UNCHANGED sent

\* processJob(job) up to its first suspension, as the d-th task.
processJob(job, d) ==
    IF LANGUAGE_CONFIG(job.language) = "undefined"
        THEN \* processSubmission returns at once; the result is signed and sent
             /\ jobs' = Append(jobs, Task(job, "report"))
             /\ sent' = sent \cup {ReportRequest(d,
                    SystemError(job.submissionId,
                                <<"Unsupported", "language", job.language>>))}
    ELSE IF ~job.code.isString
        THEN \* hashCode(job.code) throws outside the try block: processSubmission
             \* rejects and processJob's catch block sends its own request
             /\ jobs' = Append(jobs, Task(job, "errorReport"))
             /\ sent' = sent \cup {ErrorRequest(d, job.submissionId,
                    <<"data", "argument", "must", "be", "string">>)}
    ELSE /\ jobs' = Append(jobs, Task(job, "createContainer"))
         /\ UNCHANGED sent

----------------------------------------------------------------------------
(* The worker entry point: startup, the poll loop, the signal handlers *)

\* The outcomes of a fetch: a response whose status is ok (2xx) with a
\* body, a 204 (ok, no body), a response whose status is not ok, and a
\* rejected promise (transport failure).
Failures == {"notOk", "rejected"}

\* The capabilities of the registration request's body.
capabilities == {"cpp", "java", "python", "javascript", "go", "rust"}

\* main: await registerRunner, then the two intervals are set.  registerRunner
\* throws on a status that is not ok, logs and rethrows whatever was thrown;
\* main().catch logs and exits with status 1.
registerRunner ==
    /\ proc = "starting"
    /\ \/ /\ proc' = "running"
          /\ lastFetch' = <<"register", "ok">>
          /\ registered' = registered
                \cup { [publicKey |-> publicKey, capabilities |-> capabilities] }
          /\ UNCHANGED <<exitCode, jobs>>
       \/ /\ \E o \in Failures : lastFetch' = <<"register", o>>
          /\ exit(1)
          /\ UNCHANGED registered
    /\ UNCHANGED <<queue, containers, activeContainers, sent, unhandled,
                   CONCURRENCY, signalled, secrets, config, starts,
                   backendVars, serviceVars>>

\* heartbeat without its try block: a rejected fetch rejects the promise of
\* heartbeat, which nothing handles, and the process ends.
heartbeatUncaught ==
    /\ proc = "running"
    /\ \E o \in {"ok"} \cup Failures :
          /\ lastFetch' = <<"heartbeat", o>>
          /\ IF o = "rejected" THEN exit(1) ELSE UNCHANGED <<proc, exitCode, jobs>>
    /\ UNCHANGED <<queue, containers, activeContainers, sent, unhandled,
                   CONCURRENCY, signalled, keyVars,
                   backendVars, serviceVars>>

\* setInterval(() => heartbeat(RUNNER_ID, config), 30000): the request is
\* sent; a status that is not ok is logged as a warning, a rejected fetch
\* is caught and logged.
heartbeat ==
    /\ proc = "running"
    /\ \E o \in {"ok"} \cup Failures : lastFetch' = <<"heartbeat", o>>
    /\ UNCHANGED <<proc, exitCode, queue, jobs, containers, activeContainers,
                   sent, unhandled, CONCURRENCY, signalled, keyVars,
                   backendVars, serviceVars>>

\* pollQueue awaiting processJob: the callback of the interval does not
\* poll while a task it started has not ended.
pollQueueAwaitsJob ==
    /\ proc = "running"
    /\ queue # <<>>
    /\ { d \in DOMAIN jobs : jobs[d].pc \notin {"done", "rejected"} } = {}
    /\ queue' = Tail(queue)
    /\ lastFetch' = <<"job", "ok">>
    /\ IF Cardinality(activeContainers) >= CONCURRENCY
          THEN UNCHANGED <<jobs, sent>>
          ELSE processJob(Head(queue), Len(jobs) + 1)
    /\ UNCHANGED <<proc, exitCode, containers, activeContainers, unhandled,
                   CONCURRENCY, signalled, keyVars,
                   backendVars, serviceVars>>

\* setInterval(pollQueue, 1000), a tick whose request hands out a job:
\* the queue gives its head away; pollQueue reads it, compares the size of
\* activeContainers with CONCURRENCY and either skips the job or calls
\* processJob without awaiting it.
pollQueue ==
    /\ proc = "running"
    /\ queue # <<>>
    /\ queue' = Tail(queue)
    /\ lastFetch' = <<"job", "ok">>
    /\ IF Cardinality(activeContainers) >= CONCURRENCY
          THEN UNCHANGED <<jobs, sent>>
          ELSE processJob(Head(queue), Len(jobs) + 1)
    /\ UNCHANGED <<proc, exitCode, containers, activeContainers, unhandled,
                   CONCURRENCY, signalled, keyVars,
                   backendVars, serviceVars>>

\* pollQueue without its try block: only a status that is not ok is handled;
\* a 204 or a rejected fetch rejects the promise of pollQueue, which nothing
\* handles, and the process ends.
pollQueueUncaught ==
    /\ proc = "running"
    /\ \E o \in {"noContent"} \cup Failures :
          /\ lastFetch' = <<"job", o>>
          /\ IF o = "notOk" THEN UNCHANGED <<proc, exitCode, jobs>> ELSE exit(1)
    /\ UNCHANGED <<queue, containers, activeContainers, sent, unhandled,
                   CONCURRENCY, signalled, keyVars,
                   backendVars, serviceVars>>

\* A tick whose request hands out no job: a status that is not ok (pollQueue
\* warns and returns), a 204 (ok is true, response.json() throws on the
\* empty body and the catch block logs) or a rejected fetch (the catch block
\* logs).  Nothing the worker holds changes.
pollQueueNoJob ==
    /\ proc = "running"
    /\ \E o \in {"noContent"} \cup Failures : lastFetch' = <<"job", o>>
    /\ UNCHANGED <<proc, exitCode, queue, jobs, containers, activeContainers,
                   sent, unhandled, CONCURRENCY, signalled, keyVars,
                   backendVars, serviceVars>>

\* cleanupAllContainers: cleanupContainer for every key of activeContainers;
\* for the keys in failed the stop or the remove throws and the entry stays.
cleanupAllContainers(failed) ==
    /\ containers' = [n \in SubmissionIds |->
            IF n \in activeContainers \ failed THEN Absent ELSE containers[n]]
    /\ activeContainers' = activeContainers \cap failed

\* The handlers without process.exit: the cleanup is done and the intervals
\* keep firing.
SIGTERMWithoutExit ==
    /\ Alive
    /\ \E failed \in SUBSET activeContainers : cleanupAllContainers(failed)
    /\ signalled' = TRUE
    /\ UNCHANGED <<proc, exitCode, jobs, queue, sent, unhandled, CONCURRENCY,
                   lastFetch, keyVars, backendVars, serviceVars>>

\* The handlers with a cleanup that stops and removes every container of the
\* runtime and awaits each call: a call that never returns keeps the handler
\* from reaching process.exit.
SIGTERMAwaitsCleanup ==
    /\ Alive
    /\ signalled' = TRUE
    /\ UNCHANGED <<queue, sent, unhandled, CONCURRENCY, lastFetch,
                   activeContainers, keyVars, backendVars, serviceVars>>
    /\ \/ /\ containers' = [n \in SubmissionIds |-> Absent]
          /\ exit(0)
       \/ /\ \E n \in SubmissionIds : containers[n].status # "absent"
          /\ UNCHANGED <<containers, proc, exitCode, jobs>>

\* The SIGTERM and SIGINT handlers: cleanupAllContainers, then exit(0).  The
\* handler runs to process.exit without yielding to the event loop unless
\* cleanupContainer is called, that is, unless activeContainers has a key.
SIGTERM ==
    /\ Alive
    /\ \E failed \in SUBSET activeContainers : cleanupAllContainers(failed)
    /\ exit(0)
    /\ signalled' = TRUE
    /\ UNCHANGED <<queue, sent, unhandled, CONCURRENCY, lastFetch, keyVars, backendVars, serviceVars>>

----------------------------------------------------------------------------
(* processSubmission, one action per awaited runtime call.  Each call may  *)
(* throw; a call on a handle whose container is gone always throws.        *)

JobVars == <<proc, exitCode, queue, activeContainers, unhandled, CONCURRENCY,
             lastFetch, signalled, keyVars, backendVars, serviceVars>>

At(d, pc) == Alive /\ d \in DOMAIN jobs /\ jobs[d].pc = pc

\* await docker.createContainer({Image, name, Cmd, HostConfig, ...}).  The
\* runtime refuses a name that is in use and a request without an image
\* (langConfig is an inherited member, not a profile).
createContainer(d) ==
    /\ At(d, "createContainer")
    /\ \/ /\ containers[Name(d)].status = "absent"
          /\ LANGUAGE_CONFIG(jobs[d].job.language) = "profile"
          /\ containers' = [containers EXCEPT ![Name(d)] =
                                [status |-> "created", owner |-> d, exit |-> NoNum,
                                 memory |-> maxMemory]]
          /\ jobs' = [jobs EXCEPT ![d].pc = "putArchive"]
          /\ UNCHANGED sent
       \/ /\ Thrown(d)
          /\ UNCHANGED containers
    /\ UNCHANGED JobVars

\* await container.putArchive(codeBuffer, {path}); then startTime is taken
\* and container.start() is called.
putArchive(d) ==
    /\ At(d, "putArchive")
    /\ \/ /\ Owns(d, containers)
          /\ jobs' = [jobs EXCEPT ![d].pc = "start", ![d].elapsed = 0]
          /\ UNCHANGED sent
       \/ Thrown(d)
    /\ UNCHANGED <<containers, JobVars>>

\* await container.start(): the program runs.
start(d) ==
    /\ At(d, "start")
    /\ \/ /\ Owns(d, containers)
          /\ containers[Name(d)].status = "created"
          /\ containers' = [containers EXCEPT ![Name(d)].status = "running"]
          /\ jobs' = [jobs EXCEPT ![d].pc = "logs"]
          /\ UNCHANGED sent
       \/ /\ Thrown(d)
          /\ UNCHANGED containers
    /\ UNCHANGED JobVars

\* logs without the kill timer.
logsWithoutTimer(d) ==
    /\ At(d, "logs")
    /\ \/ /\ Owns(d, containers)
          /\ jobs' = [jobs EXCEPT ![d].pc = "wait"]
          /\ UNCHANGED sent
       \/ Thrown(d)
    /\ UNCHANGED <<containers, JobVars>>

\* await container.logs({follow, stdout, stderr}); then the data handler is
\* set, the kill timer is armed with job.timeLimit + 2000 and
\* container.wait() is called.
logs(d) ==
    /\ At(d, "logs")
    /\ \/ /\ Owns(d, containers)
          /\ jobs' = [jobs EXCEPT ![d].pc = "wait", ![d].timer = "armed",
                          ![d].timerLeft = jobs[d].job.timeLimit + GraceMs]
          /\ UNCHANGED sent
       \/ Thrown(d)
    /\ UNCHANGED <<containers, JobVars>>

\* The timer callback: container.kill({signal: 'SIGKILL'}) in a try block
\* whose catch block is empty.  The kill ends a running container with
\* status 137; it throws when the container is not running or is gone, and
\* it may throw for any other reason.
timeout(d) ==
    /\ Alive
    /\ d \in DOMAIN jobs
    /\ jobs[d].timer = "armed"
    /\ jobs[d].timerLeft = 0
    /\ jobs' = [jobs EXCEPT ![d].timer = "fired"]
    /\ \/ /\ ContainerStatus(d) = "running"
          /\ containers' = [containers EXCEPT ![Name(d)].status = "exited",
                                              ![Name(d)].exit = KilledStatus]
       \/ UNCHANGED containers
    /\ UNCHANGED <<sent, JobVars>>

\* The program of a running container ends on its own.
ProgramExits(d) ==
    /\ Alive
    /\ d \in DOMAIN jobs
    /\ ContainerStatus(d) = "running"
    /\ ~jobs[d].job.code.loops
    /\ containers' = [containers EXCEPT ![Name(d)].status = "exited",
                                        ![Name(d)].exit = jobs[d].job.code.exit]
    /\ UNCHANGED <<jobs, sent, JobVars>>

\* await container.wait() resolves once the container has stopped; then
\* clearTimeout(timeout), executionTime is measured and container.stats()
\* is called.  A container removed under the handle ends the wait with the
\* status of a killed container or with an error.
wait(d) ==
    /\ At(d, "wait")
    /\ \/ /\ \/ ContainerStatus(d) = "exited"
             \/ ContainerStatus(d) = "absent"
          /\ jobs' = [jobs EXCEPT
                ![d].pc = "stats",
                ![d].timer = IF jobs[d].timer = "armed" THEN "cleared"
                             ELSE jobs[d].timer,
                ![d].statusCode = IF ContainerStatus(d) = "exited"
                                  THEN containers[Name(d)].exit
                                  ELSE KilledStatus,
                ![d].executionTime = jobs[d].elapsed,
                ![d].elapsed = 0]
          /\ UNCHANGED sent
       \/ Thrown(d)
    /\ UNCHANGED <<containers, JobVars>>

\* await container.stats({stream: false}); then memoryUsed is read and
\* container.remove({force: true}) is called.
stats(d) ==
    /\ At(d, "stats")
    /\ \/ /\ Owns(d, containers)
          /\ jobs' = [jobs EXCEPT ![d].pc = "remove",
                          ![d].memoryUsed = MemoryUsage(jobs[d].job.code.mem)]
          /\ UNCHANGED sent
       \/ Thrown(d)
    /\ UNCHANGED <<containers, JobVars>>

\* The result object processSubmission builds after the removal.
Classified(t) ==
    ExecutionResult(t.job,
        Verdict(t.statusCode, t.executionTime, t.memoryUsed, t.job.code.stderr, t.job),
        Score(Verdict(t.statusCode, t.executionTime, t.memoryUsed, t.job.code.stderr,
                      t.job)),
        t.executionTime, t.memoryUsed, t.job.code.stderr)

\* await container.remove({force: true}); then the verdict is decided and the
\* result returned.
remove(d) ==
    /\ At(d, "remove")
    /\ \/ /\ Owns(d, containers)
          /\ containers' = [containers EXCEPT ![Name(d)] = Absent]
          /\ Returned(d, Classified(jobs[d]))
       \/ /\ Thrown(d)
          /\ UNCHANGED containers
    /\ UNCHANGED JobVars

\* The catch block: docker.getContainer(containerName).remove({force: true})
\* in a try block whose catch block is empty, then the SYSTEM_ERROR result.
\* The container is looked up by name.
catchRemove(d) ==
    /\ At(d, "catchRemove")
    /\ \/ /\ containers[Name(d)].status # "absent"
          /\ containers' = [containers EXCEPT ![Name(d)] = Absent]
       \/ UNCHANGED containers
    /\ Returned(d, SystemError(Name(d), <<"runtime", "error">>))
    /\ UNCHANGED JobVars

\* Time passes: for the tasks in container.wait() and for the armed timers.
Tick ==
    /\ Alive
    /\ \E d \in DOMAIN jobs :
          \/ jobs[d].pc = "wait" /\ jobs[d].elapsed < MaxElapsed
          \/ jobs[d].timer = "armed" /\ jobs[d].timerLeft > 0
    /\ jobs' = [d \in DOMAIN jobs |->
          [jobs[d] EXCEPT
              !.elapsed = IF jobs[d].pc = "wait"
                          THEN Min(jobs[d].elapsed + TickMs, MaxElapsed)
                          ELSE jobs[d].elapsed,
              !.timerLeft = IF jobs[d].timer = "armed"
                            THEN Max(jobs[d].timerLeft - TickMs, 0)
                            ELSE jobs[d].timerLeft]]
    /\ UNCHANGED <<containers, sent, JobVars>>

----------------------------------------------------------------------------
(* processJob after processSubmission *)

\* await fetch(.../api/runner/result) of the try block: resolved (whatever
\* the response's status) the task logs and ends; rejected, the catch block
\* logs and issues its own request.
report(d) ==
    /\ At(d, "report")
    /\ \/ /\ jobs' = [jobs EXCEPT ![d].pc = "done"]
          /\ UNCHANGED sent
       \/ /\ jobs' = [jobs EXCEPT ![d].pc = "errorReport"]
          /\ sent' = sent \cup {ErrorRequest(d, Name(d), <<"fetch", "failed">>)}
    /\ UNCHANGED <<containers, JobVars>>

\* await fetch(.../api/runner/result) of the catch block: resolved, the task
\* ends; rejected, processJob's promise rejects.  pollQueue neither awaits
\* nor catches it: the rejection is unhandled, which ends the process with
\* status 1 or only warns, depending on the runtime's unhandled-rejections
\* mode.
errorReport(d) ==
    /\ At(d, "errorReport")
    /\ \/ /\ jobs' = [jobs EXCEPT ![d].pc = "done"]
          /\ UNCHANGED <<proc, exitCode, unhandled>>
       \/ /\ unhandled' = unhandled \cup {d}
          /\ \/ exit(1)
             \/ /\ jobs' = [jobs EXCEPT ![d].pc = "rejected"]
                /\ UNCHANGED <<proc, exitCode>>
    /\ UNCHANGED <<queue, containers, activeContainers, sent, CONCURRENCY,
                   lastFetch, signalled, keyVars, backendVars, serviceVars>>

----------------------------------------------------------------------------
(* The backend.  A request is a record: what the client sent (route and    *)
(* the fields the route reads), the awaited call its handler is at (pc),   *)
(* the handler's locals that outlive an await (now, oldVerdict) and the    *)
(* response (status 0: none yet).  The database is a record of tables;     *)
(* each awaited database or cache call is one atomic step, and the steps   *)
(* of concurrent requests interleave.                                      *)

workerVars == <<proc, exitCode, queue, jobs, containers, activeContainers,
                sent, unhandled, CONCURRENCY, lastFetch, signalled, keyVars>>

\* jwt.sign(payload, JWT_SECRET, {expiresIn}): the token is a function of
\* the payload and of the second it is issued in (iat).
Token(type, id, iat) == [type |-> type, id |-> id, iat |-> iat]

\* generateTokens(payload) called at second t.
generateTokens(id, t) ==
    [accessToken |-> Token("access", id, t),
     refreshToken |-> Token("refresh", id, t)]

\* The session of the model: user 1 logged in at second 0.
Session == generateTokens(1, 0)

StartTime == 1
FreezeTime == 2
EndTime == 3

HttpRequest(route) ==
    [route |-> route, token |-> Token("none", 0, 0), userId |-> 1,
     idempotencyKey |-> "", code |-> "", role |-> "USER", submissionId |-> 0,
     verdict |-> "", pc |-> "", now |-> NoNum, oldVerdict |-> "",
     response |-> 0, body |-> ""]

RefreshRequests ==
    { [HttpRequest("refresh") EXCEPT !.token = Session.refreshToken,
                                 !.pc = "findUnique"] }

\* POST /logout reads the token from the Authorization header, where the
\* client may put either token of its session.
LogoutRequests ==
    { [HttpRequest("logout") EXCEPT !.token = t, !.pc = "updateMany"] :
        t \in {Session.accessToken, Session.refreshToken} }

SubmitRequests ==
    { [HttpRequest("submit") EXCEPT !.idempotencyKey = "k1", !.code = c,
                                !.pc = "findContest"] : c \in {"a", "b"} }

LeaderboardRequests ==
    { [HttpRequest("leaderboard") EXCEPT !.role = r, !.pc = "findContest"] :
        r \in {"USER", "ADMIN"} }

FinalizeRequests ==
    { [HttpRequest("finalize") EXCEPT !.role = "ADMIN", !.pc = "findContest"] }

VerdictRequests ==
    { [HttpRequest("verdict") EXCEPT !.submissionId = 1, !.verdict = v,
                                 !.pc = "findUnique"] :
        v \in {"ACCEPTED", "WRONG_ANSWER"} }

\* The requests that are received together: those that read and write the
\* same table.
RequestsOf ==
    { RefreshRequests \cup LogoutRequests, SubmitRequests,
      LeaderboardRequests \cup FinalizeRequests, VerdictRequests }

\* The rows of the tables.
Submission(userId, code, idempotencyKey, verdict) ==
    [userId |-> userId, codeHash |-> code, idempotencyKey |-> idempotencyKey,
     verdict |-> verdict]

VerdictHistory(submissionId, oldVerdict, newVerdict) ==
    [submissionId |-> submissionId, oldVerdict |-> oldVerdict,
     newVerdict |-> newVerdict]

\* The keys of the cache.
IdempotencyKey(userId, idempotencyKey) ==
    [kind |-> "idempotency", userId |-> userId, key |-> idempotencyKey]

LeaderboardKey == [kind |-> "leaderboard", userId |-> 0, key |-> ""]

\* An entry of a list of the submission queue, as JSON.parse gives it back:
\* attempts is -1 when the stored object has no such field.
JobData(submissionId, attempts) ==
    [submissionId |-> submissionId, attempts |-> attempts]

\* redis.lpush(key, value): the new head of the list; redis.rpop and
\* redis.brpop take the last element.
lpush(list, value) == <<value>> \o list

\* The cache with nothing set: its plain keys, the list submission:queue,
\* the fields of the hash submission:processing and the list
\* submission:dead-letter.
EmptyRedis == [keys |-> {}, queue |-> <<>>, processing |-> {}, deadLetter |-> <<>>]

\* The database with the session's refresh token, one contest, one
\* submission of an earlier request (PENDING, with its creation entry in
\* the history) and finals final leaderboard snapshots of the contest.
Database(freezeTime, status, finals) ==
    [refreshToken |-> { [token |-> Session.refreshToken, revokedAt |-> FALSE] },
     contest |-> [startTime |-> StartTime, freezeTime |-> freezeTime,
                  endTime |-> EndTime, status |-> status],
     submission |-> << Submission(1, "z", "k0", "PENDING") >>,
     verdictHistory |-> << VerdictHistory(1, "PENDING", "PENDING") >>,
     leaderboardSnapshot |-> finals]

Databases ==
    { Database(f, s, n) :
        f \in {NoNum, FreezeTime}, s \in {"RUNNING", "ENDED"}, n \in {0, 1} }

\* The i-th request's handler awaits the call pc.
Awaits(i, route, pc) ==
    /\ i \in DOMAIN requests
    /\ requests[i].route = route
    /\ requests[i].pc = pc

\* The awaited call resolved and the handler goes on to await the call pc.
Goto(i, pc) == requests' = [requests EXCEPT ![i].pc = pc]

\* res.status(status).json(body), or next(error) with an error of that
\* status.
Respond(i, status, body) ==
    requests' = [requests EXCEPT ![i].pc = "done", ![i].response = status,
                                 ![i].body = body]

\* Time passes on the backend's clock (seconds).
Clock ==
    /\ now < MaxNow
    /\ now' = now + 1
    /\ UNCHANGED <<db, redis, requests, workerVars, serviceVars>>

(* POST /api/auth/refresh *)

\* await prisma.refreshToken.findUnique({where: {token}}), then the checks
\* of the record and of the token's type.
refreshFindUnique(i) ==
    /\ Awaits(i, "refresh", "findUnique")
    /\ LET tokenRecord == { row \in db.refreshToken : row.token = requests[i].token }
       IN  IF \/ tokenRecord = {}
              \/ \E row \in tokenRecord : row.revokedAt
              \/ requests[i].token.type # "refresh"
               THEN Respond(i, 401, "")
               ELSE Goto(i, "update")
    /\ UNCHANGED <<db, redis, now, workerVars, serviceVars>>

\* await prisma.refreshToken.update({data: {revokedAt}}), then
\* generateTokens in the second the clock shows.
refreshUpdate(i) ==
    /\ Awaits(i, "refresh", "update")
    /\ db' = [db EXCEPT !.refreshToken =
                { IF row.token = requests[i].token
                      THEN [row EXCEPT !.revokedAt = TRUE] ELSE row :
                  row \in db.refreshToken }]
    /\ requests' = [requests EXCEPT ![i].pc = "create", ![i].now = now]
    /\ UNCHANGED <<redis, now, workerVars, serviceVars>>

\* await prisma.refreshToken.create({data: {token: newRefreshToken, ...}}),
\* then res.json with the new tokens.  The token column is unique: the
\* create throws when the table holds the same token.
refreshCreate(i) ==
    /\ Awaits(i, "refresh", "create")
    /\ LET newRefreshToken ==
               generateTokens(requests[i].token.id, requests[i].now).refreshToken
       IN  IF \E row \in db.refreshToken : row.token = newRefreshToken
               THEN /\ Respond(i, 500, "")
                    /\ UNCHANGED db
               ELSE /\ db' = [db EXCEPT !.refreshToken =
                                @ \cup { [token |-> newRefreshToken,
                                          revokedAt |-> FALSE] }]
                    /\ Respond(i, 200, "tokens")
    /\ UNCHANGED <<redis, now, workerVars, serviceVars>>

(* POST /api/auth/logout *)

\* The token after 'Bearer ' in the Authorization header;
\* await prisma.refreshToken.updateMany({where: {token}, data: {revokedAt}}),
\* then res.json({message: 'Logged out successfully'}).
logout(i) ==
    /\ Awaits(i, "logout", "updateMany")
    /\ db' = [db EXCEPT !.refreshToken =
                { IF row.token = requests[i].token
                      THEN [row EXCEPT !.revokedAt = TRUE] ELSE row :
                  row \in db.refreshToken }]
    /\ Respond(i, 200, "")
    /\ UNCHANGED <<redis, now, workerVars, serviceVars>>

(* POST /api/submissions *)

\* await prisma.contest.findUnique, the check of the contest's times
\* against new Date(), await prisma.problem.findUnique (the problem is
\* there).
submitFindContest(i) ==
    /\ Awaits(i, "submit", "findContest")
    /\ IF now < db.contest.startTime \/ now > db.contest.endTime
           THEN Respond(i, 400, "")
           ELSE Goto(i, "exists")
    /\ UNCHANGED <<db, redis, now, workerVars, serviceVars>>

\* checkIdempotency: await redis.exists(key).
submitExists(i) ==
    /\ Awaits(i, "submit", "exists")
    /\ IF IdempotencyKey(requests[i].userId, requests[i].idempotencyKey)
              \in redis.keys
           THEN Goto(i, "findDuplicate")
           ELSE Goto(i, "setex")
    /\ UNCHANGED <<db, redis, now, workerVars, serviceVars>>

\* checkIdempotency: await redis.setex(key, ...), return false.
submitSetex(i) ==
    /\ Awaits(i, "submit", "setex")
    /\ redis' = [redis EXCEPT !.keys =
                    @ \cup {IdempotencyKey(requests[i].userId,
                                           requests[i].idempotencyKey)}]
    /\ Goto(i, "findRecent")
    /\ UNCHANGED <<db, now, workerVars, serviceVars>>

\* isDuplicate: await prisma.submission.findFirst({where: {userId,
\* idempotencyKey}}); 409 only when a record is found.
submitFindDuplicate(i) ==
    /\ Awaits(i, "submit", "findDuplicate")
    /\ IF \E k \in DOMAIN db.submission :
              /\ db.submission[k].userId = requests[i].userId
              /\ db.submission[k].idempotencyKey = requests[i].idempotencyKey
           THEN Respond(i, 409, "")
           ELSE Goto(i, "findRecent")
    /\ UNCHANGED <<db, redis, now, workerVars, serviceVars>>

\* await prisma.submission.findFirst({where: {userId, problemId, codeHash,
\* submittedAt}}): the same code submitted in the last five minutes.
submitFindRecent(i) ==
    /\ Awaits(i, "submit", "findRecent")
    /\ IF \E k \in DOMAIN db.submission :
              /\ db.submission[k].userId = requests[i].userId
              /\ db.submission[k].codeHash = requests[i].code
           THEN Respond(i, 409, "")
           ELSE Goto(i, "create")
    /\ UNCHANGED <<db, redis, now, workerVars, serviceVars>>

\* await prisma.submission.create, await prisma.verdictHistory.create,
\* await queueSubmission, then the 201 response.
submitCreate(i) ==
    /\ Awaits(i, "submit", "create")
    /\ db' = [db EXCEPT
                !.submission = Append(@, Submission(requests[i].userId,
                                   requests[i].code, requests[i].idempotencyKey,
                                   "PENDING")),
                !.verdictHistory = Append(@, VerdictHistory(
                                   Len(db.submission) + 1, "PENDING", "PENDING"))]
    /\ redis' = [redis EXCEPT !.queue = lpush(@, JobData(Len(db.submission) + 1, 0))]
    /\ Respond(i, 201, "submission")
    /\ UNCHANGED <<now, workerVars, serviceVars>>

(* GET /api/contests/:id/leaderboard *)

\* contest.freezeTime && now >= contest.freezeTime && now < contest.endTime
isFrozen(contest, t) ==
    /\ contest.freezeTime # NoNum
    /\ t >= contest.freezeTime
    /\ t < contest.endTime

\* The handler with the cache read before the freeze is looked at.
leaderboardCacheFirst(i) ==
    /\ Awaits(i, "leaderboard", "findContest")
    /\ IF LeaderboardKey \in redis.keys
           THEN requests' = [requests EXCEPT ![i].pc = "done", ![i].now = now,
                                 ![i].response = 200, ![i].body = "cached"]
       ELSE IF isFrozen(db.contest, now) /\ requests[i].role # "ADMIN"
           THEN requests' = [requests EXCEPT ![i].pc = "done", ![i].now = now,
                                 ![i].response = 403, ![i].body = "frozen"]
           ELSE requests' = [requests EXCEPT ![i].pc = "findFinal", ![i].now = now]
    /\ UNCHANGED <<db, redis, now, workerVars, serviceVars>>

\* await prisma.contest.findUnique, now = new Date(), isFrozen, and the 403
\* for a user who is not an admin.
leaderboardFindContest(i) ==
    /\ Awaits(i, "leaderboard", "findContest")
    /\ IF isFrozen(db.contest, now) /\ requests[i].role # "ADMIN"
           THEN requests' = [requests EXCEPT ![i].pc = "done", ![i].now = now,
                                 ![i].response = 403, ![i].body = "frozen"]
           ELSE requests' = [requests EXCEPT ![i].pc = "getCache", ![i].now = now]
    /\ UNCHANGED <<db, redis, now, workerVars, serviceVars>>

\* await getCache(cacheKey); the cached leaderboard is the response.
leaderboardGetCache(i) ==
    /\ Awaits(i, "leaderboard", "getCache")
    /\ IF LeaderboardKey \in redis.keys
           THEN Respond(i, 200, "cached")
           ELSE Goto(i, "findFinal")
    /\ UNCHANGED <<db, redis, now, workerVars, serviceVars>>

\* await prisma.leaderboardSnapshot.findFirst({where: {contestId, isFinal}});
\* the snapshot's data is the response.
leaderboardFindFinal(i) ==
    /\ Awaits(i, "leaderboard", "findFinal")
    /\ IF db.leaderboardSnapshot > 0
           THEN Respond(i, 200, "snapshot")
           ELSE Goto(i, "compute")
    /\ UNCHANGED <<db, redis, now, workerVars, serviceVars>>

\* The two findMany calls and the ranking; setCache unless the contest was
\* frozen at the handler's clock reading or has ended; the computed
\* leaderboard is the response.
leaderboardCompute(i) ==
    /\ Awaits(i, "leaderboard", "compute")
    /\ redis' = IF ~isFrozen(db.contest, requests[i].now)
                     /\ db.contest.status # "ENDED"
                    THEN [redis EXCEPT !.keys = @ \cup {LeaderboardKey}]
                    ELSE redis
    /\ Respond(i, 200, "computed")
    /\ UNCHANGED <<db, now, workerVars, serviceVars>>

(* POST /api/admin/contests/:id/finalize *)

\* await prisma.contest.findUnique and the check of contest.status.
finalizeFindContest(i) ==
    /\ Awaits(i, "finalize", "findContest")
    /\ IF db.contest.status # "ENDED"
           THEN Respond(i, 400, "")
           ELSE Goto(i, "findFinal")
    /\ UNCHANGED <<db, redis, now, workerVars, serviceVars>>

\* await prisma.leaderboardSnapshot.findFirst({where: {contestId, isFinal}}).
finalizeFindFinal(i) ==
    /\ Awaits(i, "finalize", "findFinal")
    /\ IF db.leaderboardSnapshot > 0
           THEN Respond(i, 400, "")
           ELSE Goto(i, "create")
    /\ UNCHANGED <<db, redis, now, workerVars, serviceVars>>

\* The findMany calls and the ranking, then
\* await prisma.leaderboardSnapshot.create({data: {isFinal: true, ...}}).
finalizeCreate(i) ==
    /\ Awaits(i, "finalize", "create")
    /\ db' = [db EXCEPT !.leaderboardSnapshot = @ + 1]
    /\ Respond(i, 200, "finalized")
    /\ UNCHANGED <<redis, now, workerVars, serviceVars>>

(* updateSubmissionVerdict(submissionId, verdict, data) *)

\* await prisma.submission.findUnique; oldVerdict = submission.verdict.
verdictFindUnique(i) ==
    /\ Awaits(i, "verdict", "findUnique")
    /\ IF requests[i].submissionId \in DOMAIN db.submission
           THEN requests' = [requests EXCEPT
                    ![i].pc = "update",
                    ![i].oldVerdict = db.submission[requests[i].submissionId].verdict]
           ELSE Goto(i, "done")
    /\ UNCHANGED <<db, redis, now, workerVars, serviceVars>>

\* await prisma.submission.update({data: {verdict, ...}}).
verdictUpdate(i) ==
    /\ Awaits(i, "verdict", "update")
    /\ db' = [db EXCEPT !.submission[requests[i].submissionId].verdict =
                            requests[i].verdict]
    /\ Goto(i, "historyCreate")
    /\ UNCHANGED <<redis, now, workerVars, serviceVars>>

\* await prisma.verdictHistory.create({data: {oldVerdict, newVerdict}}), the
\* emit, and the updated record is returned.
verdictHistoryCreate(i) ==
    /\ Awaits(i, "verdict", "historyCreate")
    /\ db' = [db EXCEPT !.verdictHistory =
                Append(@, VerdictHistory(requests[i].submissionId,
                                         requests[i].oldVerdict,
                                         requests[i].verdict))]
    /\ Respond(i, 200, "updated")
    /\ UNCHANGED <<redis, now, workerVars, serviceVars>>

Handle(i) ==
    \/ refreshFindUnique(i)
    \/ refreshUpdate(i)
    \/ refreshCreate(i)
    \/ logout(i)
    \/ submitFindContest(i)
    \/ submitExists(i)
    \/ submitSetex(i)
    \/ submitFindDuplicate(i)
    \/ submitFindRecent(i)
    \/ submitCreate(i)
    \/ leaderboardFindContest(i)
    \/ leaderboardGetCache(i)
    \/ leaderboardFindFinal(i)
    \/ leaderboardCompute(i)
    \/ finalizeFindContest(i)
    \/ finalizeFindFinal(i)
    \/ finalizeCreate(i)
    \/ verdictFindUnique(i)
    \/ verdictUpdate(i)
    \/ verdictHistoryCreate(i)

----------------------------------------------------------------------------
(* The submission queue (services/queue.js).  Each exported function is    *)
(* one step; the callers are the backend's routes and its dispatcher.      *)

\* The submissions the queue's callers pass.
QueuedIds == {1, 2, 3, 4}

\* The ids a list of entries holds.
IdsOf(list) == { list[k].submissionId : k \in DOMAIN list }

\* queueSubmission(job): lpush of the job with attempts: 0.  A submission
\* is queued when it is created, so it is nowhere in the queue's keys.
queueSubmission(submissionId) ==
    /\ submissionId \notin IdsOf(redis.queue) \cup redis.processing
                              \cup IdsOf(redis.deadLetter)
    /\ redis' = [redis EXCEPT !.queue = lpush(@, JobData(submissionId, 0))]
    /\ UNCHANGED <<db, requests, now, workerVars, serviceVars>>

\* dequeueSubmission(): brpop of the queue, hset of the processing hash.
dequeueSubmission ==
    /\ redis.queue # <<>>
    /\ redis' = [redis EXCEPT
                    !.queue = SubSeq(@, 1, Len(@) - 1),
                    !.processing = @ \cup {redis.queue[Len(redis.queue)].submissionId}]
    /\ UNCHANGED <<db, requests, now, workerVars, serviceVars>>

\* markSubmissionComplete(submissionId): hdel of the processing hash.
markSubmissionComplete(submissionId) ==
    /\ submissionId \in redis.processing
    /\ redis' = [redis EXCEPT !.processing = @ \ {submissionId}]
    /\ UNCHANGED <<db, requests, now, workerVars, serviceVars>>

\* markSubmissionFailed(submissionId, error): hdel of the processing hash,
\* lpush of {submissionId, error, failedAt} on the dead-letter list; the
\* object has no attempts field.
markSubmissionFailed(submissionId) ==
    /\ submissionId \in redis.processing
    /\ redis' = [redis EXCEPT
                    !.processing = @ \ {submissionId},
                    !.deadLetter = lpush(@, JobData(submissionId, NoNum))]
    /\ UNCHANGED <<db, requests, now, workerVars, serviceVars>>

\* jobData.attempts < 3: the comparison of a missing field (undefined) with
\* a number is false.
attemptsBelow(jobData, limit) ==
    jobData.attempts # NoNum /\ jobData.attempts < limit

\* The local array jobs of requeueDeadLetter after the loop that empties
\* list by rpop: the entries that pass the comparison, attempts increased,
\* in the order they were popped (last element first).
RECURSIVE requeued(_)
requeued(list) ==
    IF list = <<>> THEN <<>>
    ELSE LET jobData == list[Len(list)]
         IN  (IF attemptsBelow(jobData, 3)
                THEN << JobData(jobData.submissionId, jobData.attempts + 1) >>
                ELSE <<>>)
             \o requeued(SubSeq(list, 1, Len(list) - 1))

\* redis.lpush(key, ...values): the values are pushed one after another, so
\* the last one becomes the head.
RECURSIVE lpushAll(_, _)
lpushAll(list, values) ==
    IF values = <<>> THEN list
    ELSE lpushAll(lpush(list, Head(values)), Tail(values))

\* requeueDeadLetter(): rpop until the dead-letter list is empty, then one
\* lpush of the array on the queue if the array is not empty.
requeueDeadLetter ==
    /\ redis.deadLetter # <<>>
    /\ redis' = [redis EXCEPT
                    !.deadLetter = <<>>,
                    !.queue = lpushAll(@, requeued(redis.deadLetter))]
    /\ UNCHANGED <<db, requests, now, workerVars, serviceVars>>

----------------------------------------------------------------------------
(* The contest scheduler (services/scheduler.js): the callback that cron   *)
(* runs every minute, one step; it reads the clock once and then moves the *)
(* contests through its four queries in order.                             *)

ContestStatus == {"UPCOMING", "RUNNING", "FROZEN", "ENDED"}

\* The contest after the updates that follow one findMany: the contest
\* matches the query's where clause or is left as it is.
updateWhere(contest, matches, status) ==
    IF matches THEN [contest EXCEPT !.status = status] ELSE contest

startContestScheduler ==
    /\ scheduler # now
    /\ LET upcoming == db.contest
           running  == updateWhere(upcoming,
                           /\ upcoming.status = "UPCOMING"
                           /\ upcoming.startTime <= now,
                           "RUNNING")
           frozen   == updateWhere(running,
                           /\ running.status = "RUNNING"
                           /\ running.freezeTime # NoNum
                           /\ running.freezeTime <= now
                           /\ running.endTime > now,
                           "FROZEN")
           ended    == updateWhere(frozen,
                           /\ frozen.status = "FROZEN"
                           /\ frozen.endTime <= now,
                           "ENDED")
           runningToEnd == updateWhere(ended,
                           /\ ended.status = "RUNNING"
                           /\ ended.endTime <= now,
                           "ENDED")
       IN  /\ db' = [db EXCEPT !.contest = runningToEnd]
           /\ redis' = IF frozen # running
                           THEN [redis EXCEPT !.keys = @ \ {LeaderboardKey}]
                           ELSE redis
    /\ scheduler' = now
    /\ UNCHANGED <<requests, now, store, workerVars>>

----------------------------------------------------------------------------
(* The frontend's submission slice (store/slices/submissionSlice.ts): the  *)
(* state and its reducers, each one step on the action's payload.          *)

VerdictSchema ==
    {"pending", "compiling", "running", "accepted", "wrong_answer",
     "time_limit_exceeded", "memory_limit_exceeded", "runtime_error",
     "compilation_error", "system_error", "verifying"}

\* The submissions the server's responses carry: id and verdict.
StoreIds == {"s1", "s2"}

Payloads == [id : StoreIds, verdict : VerdictSchema]

NoSubmission == [id |-> "", verdict |-> ""]

initialState ==
    [submissions |-> <<>>, currentSubmission |-> NoSubmission,
     loading |-> FALSE, pendingVerifications |-> {}]

\* state.submissions.findIndex(s => s.id === id), 0 for -1.
findIndex(submissions, id) ==
    IF \E k \in DOMAIN submissions : submissions[k].id = id
        THEN CHOOSE k \in DOMAIN submissions :
                /\ submissions[k].id = id
                /\ \A l \in 1..(k - 1) : submissions[l].id # id
        ELSE 0

\* The statements that updateSubmissionStatus and the reducer of
\* pollSubmissionStatus.fulfilled share.
applyStatus(state, payload) ==
    LET index == findIndex(state.submissions, payload.id)
    IN  [state EXCEPT
            !.submissions = IF index > 0 THEN [@ EXCEPT ![index] = payload] ELSE @,
            !.currentSubmission = IF @.id = payload.id THEN payload ELSE @,
            !.pendingVerifications =
                IF payload.verdict # "pending" /\ payload.verdict # "verifying"
                    THEN @ \ {payload.id}
                    ELSE @]

updateSubmissionStatus(payload) ==
    /\ store' = applyStatus(store, payload)
    /\ UNCHANGED <<scheduler, backendVars, workerVars>>

pollSubmissionStatusFulfilled(payload) ==
    /\ store' = applyStatus(store, payload)
    /\ UNCHANGED <<scheduler, backendVars, workerVars>>

addPendingVerification(id) ==
    /\ store' = [store EXCEPT !.pendingVerifications = @ \cup {id}]
    /\ UNCHANGED <<scheduler, backendVars, workerVars>>

submitSolutionPending ==
    /\ store' = [store EXCEPT !.loading = TRUE]
    /\ UNCHANGED <<scheduler, backendVars, workerVars>>

\* The server answers a submission with a new row, so the payload's id is
\* not among the submissions of the state.
submitSolutionFulfilled(payload) ==
    /\ store.loading
    /\ findIndex(store.submissions, payload.id) = 0
    /\ store' = [store EXCEPT
                    !.loading = FALSE,
                    !.submissions = <<payload>> \o @,
                    !.currentSubmission = payload,
                    !.pendingVerifications =
                        IF payload.verdict = "pending" \/ payload.verdict = "verifying"
                            THEN @ \cup {payload.id}
                            ELSE @]
    /\ UNCHANGED <<scheduler, backendVars, workerVars>>

submitSolutionRejected ==
    /\ store.loading
    /\ store' = [store EXCEPT !.loading = FALSE]
    /\ UNCHANGED <<scheduler, backendVars, workerVars>>

fetchSubmissionFulfilled(payload) ==
    /\ LET index == findIndex(store.submissions, payload.id)
       IN  store' = [store EXCEPT
                        !.submissions = IF index > 0
                                            THEN [@ EXCEPT ![index] = payload]
                                            ELSE Append(@, payload)]
    /\ UNCHANGED <<scheduler, backendVars, workerVars>>

----------------------------------------------------------------------------

\* The secret storage with both key files of one pair in place.
MountedKeys == [private |-> {Key(101, "private")}, public |-> {Key(101, "public")}]

\* The scheduler has not run and the frontend's store is as created.
ServiceIdle ==
    /\ scheduler = NoNum
    /\ store = initialState

\* No request has reached the backend.
BackendIdle ==
    /\ db = Database(FreezeTime, "RUNNING", 0)
    /\ redis = EmptyRedis
    /\ requests = <<>>
    /\ now = StartTime
    /\ ServiceIdle

\* The worker process after the module's top-level statements, main() not
\* yet called.
RunnerInit(queues, limits, stores) ==
    /\ secrets \in stores
    /\ config = loadConfig(secrets, 1)
    /\ starts = 1
    /\ registered = {}
    /\ CONCURRENCY \in limits
    /\ lastFetch = <<"none", "none">>
    /\ signalled = FALSE
    /\ proc = "starting"
    /\ exitCode = NoNum
    /\ queue \in queues
    /\ jobs = <<>>
    /\ containers = [n \in SubmissionIds |-> Absent]
    /\ activeContainers = {}
    /\ sent = {}
    /\ unhandled = {}

InitWith(queues, limits) ==
    RunnerInit(queues, limits, {MountedKeys}) /\ BackendIdle

Init == InitWith(Queues, ConcurrencyValues)

JobInit == InitWith(JobQueues, {1})

Step(d) ==
    \/ createContainer(d)
    \/ putArchive(d)
    \/ start(d)
    \/ logs(d)
    \/ timeout(d)
    \/ ProgramExits(d)
    \/ wait(d)
    \/ stats(d)
    \/ remove(d)
    \/ catchRemove(d)
    \/ report(d)
    \/ errorReport(d)

Next ==
    \/ registerRunner
    \/ pollQueue
    \/ pollQueueNoJob
    \/ heartbeat
    \/ SIGTERM
    \/ Tick
    \/ \E d \in 1..MaxQueue : Step(d)

\* Next without the ticks that hand out no job and without the heartbeats:
\* these steps change lastFetch alone, which no step reads.
JobNext ==
    \/ registerRunner
    \/ pollQueue
    \/ SIGTERM
    \/ Tick
    \/ \E d \in 1..MaxQueue : Step(d)

\* The supervisor starts the worker again after it has exited: a new
\* process runs the module's top-level statements (loadConfig among them)
\* with nothing of the old process's memory; the secret storage, the
\* registry, the runtime, the queue and the sink are as they were.
restart ==
    /\ proc = "exited"
    /\ starts < MaxStarts
    /\ starts' = starts + 1
    /\ config' = loadConfig(secrets, starts + 1)
    /\ proc' = "starting"
    /\ exitCode' = NoNum
    /\ signalled' = FALSE
    /\ lastFetch' = <<"none", "none">>
    /\ unhandled' = {}
    /\ UNCHANGED <<queue, jobs, containers, activeContainers, sent, CONCURRENCY,
                   secrets, registered, backendVars, serviceVars>>

\* The worker with an empty queue, whatever the secret storage holds,
\* started up to MaxStarts times.
StartInit == RunnerInit({<<>>}, {1}, SecretStores) /\ BackendIdle

StartNext ==
    \/ registerRunner
    \/ pollQueueNoJob
    \/ heartbeat
    \/ SIGTERM
    \/ restart

StartSpec == StartInit /\ [][StartNext]_vars

\* The backend with up to MaxRequests requests received, the worker not
\* yet started.  The contest, the snapshots and the cache are anything when
\* the requests read them (leaderboard and finalize requests).
BackendInit ==
    /\ RunnerInit({<<>>}, {1}, {MountedKeys})
    /\ requests \in UNION { SeqsOf(R, n) : R \in RequestsOf, n \in 0..MaxRequests }
    /\ db \in Databases
    /\ redis \in { [EmptyRedis EXCEPT !.keys = k] : k \in { {}, {LeaderboardKey} } }
    /\ \/ \E i \in DOMAIN requests : requests[i] \in LeaderboardRequests \cup FinalizeRequests
       \/ db = Database(FreezeTime, "RUNNING", 0) /\ redis.keys = {}
    /\ now = StartTime
    /\ ServiceIdle

BackendNext ==
    \/ Clock
    \/ \E i \in 1..MaxRequests : Handle(i)

BackendSpec == BackendInit /\ [][BackendNext]_vars

\* The submission queue with nothing queued, used by its callers in any
\* order.
QueueInit == RunnerInit({<<>>}, {1}, {MountedKeys}) /\ BackendIdle

QueueNext ==
    \/ \E submissionId \in QueuedIds : queueSubmission(submissionId)
    \/ dequeueSubmission
    \/ \E submissionId \in QueuedIds : markSubmissionComplete(submissionId)
    \/ \E submissionId \in QueuedIds : markSubmissionFailed(submissionId)
    \/ requeueDeadLetter

QueueSpec == QueueInit /\ [][QueueNext]_vars

\* A contest as POST /api/contests creates it: the times are any the
\* request gives (the freeze time is optional), the status is the column's
\* initial one.
Contest(startTime, freezeTime, endTime) ==
    [startTime |-> startTime, freezeTime |-> freezeTime, endTime |-> endTime,
     status |-> "UPCOMING"]

ContestTimes == StartTime..EndTime

\* One contest created before the scheduler's first run; the clock goes
\* on and the scheduler runs at most once per reading of the clock.
SchedulerInit ==
    /\ RunnerInit({<<>>}, {1}, {MountedKeys})
    /\ requests = <<>>
    /\ redis \in { [EmptyRedis EXCEPT !.keys = k] : k \in { {}, {LeaderboardKey} } }
    /\ \E startTime, endTime \in ContestTimes, freezeTime \in ContestTimes \cup {NoNum} :
          db = [Database(NoNum, "UPCOMING", 0) EXCEPT
                    !.contest = Contest(startTime, freezeTime, endTime)]
    /\ now = 0
    /\ ServiceIdle

SchedulerNext ==
    \/ Clock
    \/ startContestScheduler

SchedulerSpec == SchedulerInit /\ [][SchedulerNext]_vars

\* The store as created, its reducers run on any payloads.
FrontendInit == RunnerInit({<<>>}, {1}, {MountedKeys}) /\ BackendIdle

FrontendNext ==
    \/ \E payload \in Payloads : updateSubmissionStatus(payload)
    \/ \E payload \in Payloads : pollSubmissionStatusFulfilled(payload)
    \/ \E id \in StoreIds : addPendingVerification(id)
    \/ submitSolutionPending
    \/ \E payload \in Payloads : submitSolutionFulfilled(payload)
    \/ submitSolutionRejected
    \/ \E payload \in Payloads : fetchSubmissionFulfilled(payload)

FrontendSpec == FrontendInit /\ [][FrontendNext]_vars

Spec == Init /\ [][Next]_vars

JobSpec == JobInit /\ [][Next]_vars

\* The container the pending runtime call of the d-th task needs is there.
\* (container.wait() is not listed: it stays pending while the container
\* runs.)
CallCanSucceed(d) ==
    IF jobs[d].pc = "createContainer"
        THEN /\ containers[Name(d)].status = "absent"
             /\ LANGUAGE_CONFIG(jobs[d].job.language) = "profile"
    ELSE IF jobs[d].pc = "start"
        THEN Owns(d, containers) /\ containers[Name(d)].status = "created"
    ELSE Owns(d, containers)

\* Calls return: a runtime call or a report request that can succeed
\* eventually does, a runtime call that can only throw eventually throws,
\* time passes and due timers run.  No fairness for the failure of a call
\* that can succeed, for the program's own exit, for the queue or for
\* signals.
Completes(d) ==
    \/ /\ \/ createContainer(d)
          \/ putArchive(d)
          \/ start(d)
          \/ logs(d)
          \/ wait(d)
          \/ stats(d)
          \/ remove(d)
          \/ report(d)
       /\ jobs'[d].pc \notin {"catchRemove", "errorReport"}
    \/ /\ d \in DOMAIN jobs
       /\ jobs[d].pc \in {"createContainer", "putArchive", "start", "logs",
                          "stats", "remove"}
       /\ ~CallCanSucceed(d)
       /\ \/ createContainer(d)
          \/ putArchive(d)
          \/ start(d)
          \/ logs(d)
          \/ stats(d)
          \/ remove(d)

Fairness ==
    /\ WF_vars(Tick)
    /\ \A d \in 1..MaxQueue : WF_vars(timeout(d)) /\ WF_vars(Completes(d))

LiveSpec == JobInit /\ [][JobNext]_vars /\ Fairness

----------------------------------------------------------------------------
(* Properties *)

Requests(d) == { r \in sent : r.delivery = d }

VerdictOf(r) == CHOOSE v \in Field(r.body, "verdict") : TRUE

Ended(d) == d \in DOMAIN jobs /\ jobs[d].pc \in {"done", "rejected"}

\* processSubmission has returned (or thrown) for the d-th task.
AfterProcessSubmission(d) ==
    d \in DOMAIN jobs /\ jobs[d].pc \in {"report", "errorReport", "done", "rejected"}

\* C1: every request sent to the result sink carries a signature made with
\* the worker's private key over the serialized result.
C1_EveryResultSigned ==
    \A r \in sent :
        \E sig \in Field(r.body, "signature") : sig.key = privateKey

\* C2: a job handed to processJob never has two requests sent for it, and
\* has exactly one when its task has ended.
C2_ExactlyOneResult ==
    \A d \in DOMAIN jobs :
        /\ Cardinality(Requests(d)) <= 1
        /\ Ended(d) => Cardinality(Requests(d)) = 1

\* C3: once processSubmission has returned, the container it created for
\* the job no longer exists.
C3_NoContainerAfterReturn ==
    \A d \in DOMAIN jobs : AfterProcessSubmission(d) => ~Owns(d, containers)

\* C4: the jobs inside processSubmission never outnumber CONCURRENCY.
C4_ConcurrencyLimit ==
    Cardinality({ d \in DOMAIN jobs : jobs[d].pc \in InProcessSubmission })
        <= CONCURRENCY

\* C5: when the process has exited after a termination signal, no container
\* of this worker exists any more.
C5_ShutdownRemovesContainers ==
    (proc = "exited" /\ exitCode = 0) =>
        \A n \in SubmissionIds : containers[n].status = "absent"

\* The verdict section 4.2's rules give for the locals of a task, first
\* matching rule first, stated rule by rule.
FollowsRules(t, verdict, score) ==
    LET tle     == t.statusCode = KilledStatus \/ t.executionTime > t.job.timeLimit
        mle     == t.memoryUsed > t.job.memoryLimit * BytesPerMB
        nonzero == t.statusCode # 0
        syntax  == \/ includes(t.job.code.stderr, <<"SyntaxError">>)
                   \/ includes(t.job.code.stderr, <<"Compilation", "error">>)
    IN  /\ tle => verdict = "TIME_LIMIT_EXCEEDED"
        /\ (~tle /\ mle) => verdict = "MEMORY_LIMIT_EXCEEDED"
        /\ (~tle /\ ~mle /\ nonzero /\ syntax) => verdict = "COMPILATION_ERROR"
        /\ (~tle /\ ~mle /\ nonzero /\ ~syntax) => verdict = "RUNTIME_ERROR"
        /\ (~tle /\ ~mle /\ ~nonzero) => verdict = "ACCEPTED" /\ score = {FullScore}
        /\ verdict # "ACCEPTED" => score = {0}

\* C6: when processSubmission returns from a run that raised nothing, the
\* verdict (and score) of the result it hands over is the one the first
\* matching rule gives for the exit status, the measured time, the measured
\* memory and the stderr text of that run.
C6_VerdictFirstMatchingRule ==
    [][\A d \in DOMAIN jobs :
          (jobs[d].pc = "remove" /\ d \in DOMAIN jobs' /\ jobs'[d].pc = "report") =>
              \E r \in sent' \ sent :
                  /\ r.delivery = d
                  /\ FollowsRules(jobs[d], VerdictOf(r), Field(r.body, "score"))]_vars

\* A run classified by the first rule although the second matches too.
C6_Witness ==
    \E r \in sent :
        /\ VerdictOf(r) = "TIME_LIMIT_EXCEEDED"
        /\ Field(r.body, "memoryUsed") = {BytesPerMB + 1}

\* C7: a job whose language has no language profile never has a runtime
\* call made for it, and every result sent for it is SYSTEM_ERROR.
C7_UnsupportedNoRuntimeCall ==
    \A d \in DOMAIN jobs :
        jobs[d].job.language \notin LanguageKeys =>
            /\ jobs[d].pc \notin InProcessSubmission
            /\ \A r \in Requests(d) : VerdictOf(r) = "SYSTEM_ERROR"

\* C8: no task started by processJob ends with its promise rejected.
C8_NoUnhandledRejection == unhandled = {}

\* A forced kill of the task's container has been issued or is due.
KillIssuedOrDue(t) ==
    t.timer = "fired" \/ (t.timer = "armed" /\ t.timerLeft = 0)

\* C9: a container still running when the job's time limit has elapsed has
\* a forced kill issued or due (first deadline), and so has one still
\* running at the time limit plus the grace buffer (second deadline).
C9_TwoKillDeadlines ==
    \A d \in DOMAIN jobs :
        (jobs[d].pc = "wait" /\ ContainerStatus(d) = "running") =>
            /\ jobs[d].elapsed >= jobs[d].job.timeLimit => KillIssuedOrDue(jobs[d])
            /\ jobs[d].elapsed >= jobs[d].job.timeLimit + GraceMs =>
                   KillIssuedOrDue(jobs[d])

\* The result of the d-th task is TIME_LIMIT_EXCEEDED, its report request
\* has been answered, and the worker runs (its poll loop is active).
ReportedTLE(d) ==
    /\ proc = "running"
    /\ d \in DOMAIN jobs
    /\ jobs[d].pc = "done"
    /\ \E r \in Requests(d) : VerdictOf(r) = "TIME_LIMIT_EXCEEDED"

\* A call made for the d-th task failed: a runtime call or the report request
\* threw, or the kill of the timer callback did not end the container.
Failed(d) ==
    /\ d \in DOMAIN jobs
    /\ \/ jobs[d].pc \in {"catchRemove", "errorReport", "rejected"}
       \/ \E r \in Requests(d) : VerdictOf(r) = "SYSTEM_ERROR"
       \/ jobs[d].timer = "fired" /\ jobs[d].pc = "wait" /\ ContainerStatus(d) # "exited"

Waiting(d) ==
    d \in DOMAIN jobs /\ jobs[d].pc = "wait" /\ jobs[d].job.code.loops

\* C10: a job whose program never exits on its own, once its task waits for
\* the container, eventually has TIME_LIMIT_EXCEEDED reported with the worker
\* still running, unless a call made for it fails or the process is ended.
C10_LoopEndsAsTLE ==
    \A d \in 1..MaxQueue : Waiting(d) ~> (ReportedTLE(d) \/ Failed(d) \/ ~Alive)

\* The looping job has been reported TIME_LIMIT_EXCEEDED while the next job
\* is still in the queue: the worker runs and its next tick pulls and starts
\* that job.
C10_Witness ==
    /\ ReportedTLE(1)
    /\ jobs[1].job.code.loops
    /\ queue # <<>>
    /\ ENABLED pollQueue

\* C11: no result reports ACCEPTED for a job whose program's peak memory
\* exceeded the job's declared memory limit.
C11_NoAcceptedAboveMemoryLimit ==
    \A r \in sent :
        (/\ r.delivery \in DOMAIN jobs
         /\ jobs[r.delivery].job.code.peak >
                jobs[r.delivery].job.memoryLimit * BytesPerMB)
            => VerdictOf(r) # "ACCEPTED"

\* The program of the task's container ended on its own with a nonzero exit
\* status, within the job's time limit and memory limit (statusCode and
\* executionTime are set when container.wait() has returned).
UserFailure(t) ==
    /\ t.statusCode \notin {NoNum, 0, KilledStatus}
    /\ t.executionTime <= t.job.timeLimit
    /\ t.job.code.peak <= t.job.memoryLimit * BytesPerMB

\* C12: whatever processSubmission sends for a run whose program ended with
\* a nonzero exit status within the limits is RUNTIME_ERROR or
\* COMPILATION_ERROR, whatever the calls after the program's exit do.
C12_UserFailureNeverSystemError ==
    [][\A d \in DOMAIN jobs :
          UserFailure(jobs[d]) =>
              \A r \in sent' \ sent :
                  r.delivery = d =>
                      VerdictOf(r) \in {"RUNTIME_ERROR", "COMPILATION_ERROR"}]_vars

\* C13: whenever the queue hands a job to the poller, the job becomes the
\* next task of processJob.  (The worker has no place to keep a job for a
\* later tick.)
C13_NoDequeuedJobDropped ==
    [][queue' # queue =>
          /\ Len(jobs') = Len(jobs) + 1
          /\ jobs'[Len(jobs')].job = Head(queue)]_vars

\* C14: when the report request of a task fails, the task goes on with the
\* same signed result: what the step sends for the job, if anything, is a
\* request already sent (the signed result again), and the task has not
\* ended.
C14_FailedReportRetried ==
    [][\A d \in DOMAIN jobs \cap DOMAIN jobs' :
          (jobs[d].pc = "report" /\ jobs'[d].pc # "done") =>
              /\ jobs'[d].pc = "report"
              /\ \A r \in sent' : r.delivery = d => r \in sent]_vars

\* C15: a poll answered by a status that is not ok, by a 204 or by a
\* transport failure starts no task, sends nothing, takes nothing from the
\* queue and leaves the process running (the interval of pollQueue is never
\* cleared, so a running process polls again).
C15_FailedPollHarmless ==
    [][(/\ lastFetch' # lastFetch
        /\ lastFetch'[1] = "job"
        /\ lastFetch'[2] \in {"noContent"} \cup Failures) =>
          /\ proc' = "running"
          /\ UNCHANGED <<exitCode, queue, jobs, containers, sent, unhandled>>]_vars

\* A poll was answered by a 204 while a job runs and another waits in the
\* queue; the worker runs and its next poll can take that job.
C15_Witness ==
    /\ lastFetch = <<"job", "noContent">>
    /\ proc = "running"
    /\ \E d \in DOMAIN jobs : jobs[d].pc \in InProcessSubmission
    /\ queue # <<>>
    /\ ENABLED pollQueue

\* C16: a registration that failed (a status that is not ok or a transport
\* failure) has not ended the worker process.
C16_RegistrationNotFatal ==
    (lastFetch[1] = "register" /\ lastFetch[2] \in Failures) => proc # "exited"

\* C17: a heartbeat answered by a status that is not ok or by a transport
\* failure leaves the process running and touches no task, request, queue or
\* container; and whenever the process runs (registered, with or without
\* jobs executing, whatever the last heartbeat's outcome) the next heartbeat
\* can be sent.
C17_FailedHeartbeatHarmless ==
    /\ [][(/\ lastFetch' # lastFetch
            /\ lastFetch'[1] = "heartbeat"
            /\ lastFetch'[2] \in Failures) =>
              /\ proc' = "running"
              /\ UNCHANGED <<exitCode, queue, jobs, containers, sent,
                             unhandled>>]_vars
    /\ [](proc = "running" => ENABLED heartbeat)

\* A heartbeat failed on the transport while a job was executing; the worker
\* runs and can send the next one.
C17_Witness ==
    /\ lastFetch = <<"heartbeat", "rejected">>
    /\ proc = "running"
    /\ \E d \in DOMAIN jobs : jobs[d].pc \in InProcessSubmission
    /\ ENABLED heartbeat

\* C18: in the step that handles a termination signal and in every step
\* after it, no job is taken from the queue, no task is started and no
\* container is created.
C18_NoJobsAfterSignal ==
    [][signalled' =>
          /\ queue' = queue
          /\ Len(jobs') <= Len(jobs)
          /\ \A n \in SubmissionIds :
                 containers[n].status = "absent" => containers'[n].status = "absent"]_vars

\* The signal came while the poll loop was at work and a job was waiting in
\* the queue: the job is still there.
C18_Witness ==
    /\ signalled
    /\ lastFetch[1] = "job"
    /\ queue # <<>>

JSONparse(text) ==
    LET ks == [i \in DOMAIN text |-> text[i][1]]
    IN  [k \in {"keys"} \cup { ks[i] : i \in DOMAIN ks } |->
            IF k = "keys" THEN ks
            ELSE text[CHOOSE i \in DOMAIN text : text[i][1] = k][2]]

\* The object after delete obj[name] for every name in names.
Without(obj, names) ==
    LET ks == SelectSeq(obj.keys, LAMBDA k : k \notin names)
    IN  [k \in {"keys"} \cup { ks[i] : i \in DOMAIN ks } |->
            IF k = "keys" THEN ks ELSE obj[k]]

\* What the verifier of the signed results does with a received body: parse
\* it, delete runnerId and signature, serialize the rest.
SignedText(body) ==
    JSONstringify(Without(JSONparse(body), {"runnerId", "signature"}))

NumericKeys ==
    {"submissionId", "score", "executionTime", "memoryUsed", "testCasesPassed",
     "totalTestCases"}

\* The serialized texts that differ from text in the value of one field.
Tampered(text) ==
    { [text EXCEPT ![i] =
          <<text[i][1],
            IF text[i][1] \in NumericKeys THEN text[i][2] + 1
            ELSE IF text[i][1] = "verdict" THEN "TAMPERED"
            ELSE Append(text[i][2], "x")>>] : i \in DOMAIN text }

\* C20: for every request that carries a signature, the signature verifies
\* under the worker's public key over the body parsed, stripped of runnerId
\* and signature and serialized again, and does not verify over that text with
\* the value of any one field changed.
C20_SignatureRoundTrip ==
    \A r \in sent :
        \A sig \in Field(r.body, "signature") :
            /\ verify(SignedText(r.body), sig, publicKey)
            /\ \A t \in Tampered(SignedText(r.body)) : ~verify(t, sig, publicKey)

\* The signed result of a classified run, with all nine fields of the
\* result in the signed text, has been sent.
C20_Witness ==
    \E r \in sent :
        /\ Field(r.body, "signature") # {}
        /\ VerdictOf(r) = "RUNTIME_ERROR"
        /\ Len(SignedText(r.body)) = 9

\* C21: when a start of the worker could load no key pair and generated one,
\* the next start of the same worker has the same key pair.
C21_RestartLoadsSameKeyPair ==
    [][starts' > starts /\ config = generateKeyPair(starts) => config' = config]_vars

\* C22: a delivery of a job finds no container of its name in its way: when
\* its task asks the runtime to create its container, no container created
\* for another delivery holds the name.
C22_DeliveriesDoNotCollide ==
    \A d \in DOMAIN jobs :
        At(d, "createContainer") => containers[Name(d)].status = "absent"

\* C30: a job is pulled from the queue only while fewer tasks are inside
\* processSubmission than the worker has concurrency slots.
C30_CapacityCheckedBeforePull ==
    [][queue' # queue
          => Cardinality({ d \in DOMAIN jobs : jobs[d].pc \in InProcessSubmission })
                < CONCURRENCY]_vars

\* C23: in every signed result sent, the output field and the error field
\* are each at most OutputLimit characters long.
C23_OutputAndErrorBounded ==
    \A r \in sent :
        Field(r.body, "signature") # {} =>
            \A f \in {"output", "error"} :
                \A t \in Field(r.body, f) : TextLen(t) <= OutputLimit

\* C24: of the refresh requests presenting one token, at most one is
\* answered with new tokens.
C24_RefreshTokenAcceptedOnce ==
    \A i, j \in DOMAIN requests :
        /\ requests[i].route = "refresh" /\ requests[i].response = 200
        /\ requests[j].route = "refresh" /\ requests[j].response = 200
        /\ requests[i].token = requests[j].token
        => i = j

\* The two tokens belong to one session (they were issued together).
SameSession(t, u) == t.id = u.id /\ t.iat = u.iat

\* C25: once a logout of a session has been answered, no refresh request
\* presenting the session's refresh token passes the check of its record.
C25_LogoutRevokesRefreshToken ==
    [][\A i \in DOMAIN requests :
          /\ requests[i].route = "refresh"
          /\ requests[i].pc = "findUnique"
          /\ \E j \in DOMAIN requests :
                /\ requests[j].route = "logout"
                /\ requests[j].response = 200
                /\ SameSession(requests[j].token, requests[i].token)
          => requests'[i].pc # "update"]_vars

\* C26: for one user and one idempotency key at most one submission record
\* exists and at most one submission is queued.
C26_OneSubmissionPerIdempotencyKey ==
    /\ \A k, l \in DOMAIN db.submission :
          /\ db.submission[k].userId = db.submission[l].userId
          /\ db.submission[k].idempotencyKey = db.submission[l].idempotencyKey
          => k = l
    /\ \A k, l \in DOMAIN redis.queue :
          /\ db.submission[redis.queue[k].submissionId].userId
                = db.submission[redis.queue[l].submissionId].userId
          /\ db.submission[redis.queue[k].submissionId].idempotencyKey
                = db.submission[redis.queue[l].submissionId].idempotencyKey
          => k = l

\* C27: a leaderboard request of a user who is not an admin, handled while
\* the contest is frozen (freezeTime <= now < endTime at the handler's
\* reading of the clock), is never answered with leaderboard data, whatever
\* the cache and the snapshots hold.
C27_FrozenLeaderboardHidden ==
    \A i \in DOMAIN requests :
        /\ requests[i].route = "leaderboard"
        /\ requests[i].role # "ADMIN"
        /\ requests[i].now # NoNum
        /\ isFrozen(db.contest, requests[i].now)
        => /\ requests[i].response # 200
           /\ requests[i].body \notin {"cached", "snapshot", "computed"}
           /\ requests[i].pc = "done"

\* A user's leaderboard request was refused while the contest was frozen,
\* the cache held a leaderboard and a final snapshot existed.
C27_Witness ==
    \E i \in DOMAIN requests :
        /\ requests[i].route = "leaderboard"
        /\ requests[i].role = "USER"
        /\ isFrozen(db.contest, requests[i].now)
        /\ requests[i].response = 403
        /\ LeaderboardKey \in redis.keys
        /\ db.leaderboardSnapshot > 0

\* C28: at most one final leaderboard snapshot of the contest exists.
C28_OneFinalSnapshot == db.leaderboardSnapshot <= 1

\* The history entries of a submission, by their position in the table.
EntriesOf(id) ==
    { k \in DOMAIN db.verdictHistory : db.verdictHistory[k].submissionId = id }

\* The entries of a submission can be put in an order that starts at
\* PENDING, in which each entry's oldVerdict is the newVerdict of the entry
\* before it, and that ends at the submission's verdict.
IsChain(id) ==
    LET E == EntriesOf(id)
        n == Cardinality(E)
    IN  \E f \in [1..n -> E] :
            /\ \A a, b \in 1..n : f[a] = f[b] => a = b
            /\ db.verdictHistory[f[1]].oldVerdict = "PENDING"
            /\ \A a \in 2..n :
                  db.verdictHistory[f[a]].oldVerdict
                      = db.verdictHistory[f[a - 1]].newVerdict
            /\ db.verdictHistory[f[n]].newVerdict = db.submission[id].verdict

\* C29: whenever no update of a submission's verdict is between its write of
\* the verdict and its write of the history entry, the history entries of
\* the submission form a chain from PENDING to its verdict.
C29_VerdictHistoryIsChain ==
    \A id \in DOMAIN db.submission :
        (\A i \in DOMAIN requests :
            ~(/\ requests[i].route = "verdict"
              /\ requests[i].submissionId = id
              /\ requests[i].pc = "historyCreate"))
        => IsChain(id)

\* C31: a container is removed only by a step of the task that created it.
C31_OnlyOwnContainerRemoved ==
    [][\A n \in SubmissionIds :
          (containers[n].status # "absent" /\ containers'[n].status = "absent")
              => /\ containers[n].owner \in DOMAIN jobs \cap DOMAIN jobs'
                 /\ jobs'[containers[n].owner].pc # jobs[containers[n].owner].pc]_vars

\* C32: activeContainers holds exactly the containers that exist.
C32_ActiveContainersAccurate ==
    activeContainers = { n \in SubmissionIds : containers[n].status # "absent" }

\* C33: while the worker runs and the queue holds a job, the poller can pull
\* it, whatever the tasks in flight are doing; and a job pulled while another
\* task waits for its container becomes a task at once.
C33_WaitingJobBlocksNoOther ==
    /\ [](proc = "running" /\ queue # <<>> => ENABLED pollQueue)
    /\ [][(queue' # queue /\ \E d \in DOMAIN jobs : jobs[d].pc = "wait")
            => /\ Len(jobs') = Len(jobs) + 1
               /\ jobs'[Len(jobs')].job = Head(queue)]_vars

\* The first job is still waiting for its container while the job pulled
\* after it has been run, reported and ended.
C33_Witness ==
    /\ Len(jobs) = 2
    /\ jobs[1].pc = "wait"
    /\ jobs[2].pc = "done"
    /\ \E r \in Requests(2) : VerdictOf(r) = "ACCEPTED"

\* C34: two containers that exist for jobs with different declared memory
\* limits have different memory ceilings.
C34_CeilingFollowsJobLimit ==
    \A n, m \in SubmissionIds :
        (/\ containers[n].status # "absent"
         /\ containers[m].status # "absent"
         /\ containers[n].owner \in DOMAIN jobs
         /\ containers[m].owner \in DOMAIN jobs
         /\ jobs[containers[n].owner].job.memoryLimit
                # jobs[containers[m].owner].job.memoryLimit)
            => containers[n].memory # containers[m].memory

\* C35: the kill timer of a task never fires once processSubmission has
\* returned for the task.
C35_NoTimerAfterReturn ==
    [][\A d \in DOMAIN jobs \cap DOMAIN jobs' :
          (jobs[d].timer = "armed" /\ jobs'[d].timer = "fired")
              => ~AfterProcessSubmission(d)]_vars

\* C36: the public key of every registration the worker sends is the
\* counterpart of the private key the worker signs with.
C36_RegisteredKeyMatchesSigner ==
    [][\A r \in registered' \ registered :
          <<privateKey, r.publicKey>> \in KeyPairs]_vars

\* The language names the properties range over.
LanguageNames ==
    LanguageKeys \cup ObjectPrototypeKeys \cup {"cobol", LongWord}

\* C37: the languages of every registration are exactly those with a
\* language profile, and no result sent for a job of an advertised language
\* says the language is unsupported.
C37_AdvertisedEqualsSupported ==
    /\ \A r \in registered :
          \A l \in LanguageNames :
              l \in r.capabilities <=> LANGUAGE_CONFIG(l) = "profile"
    /\ \A r \in sent :
          (/\ r.delivery \in DOMAIN jobs
           /\ jobs[r.delivery].job.language \in capabilities)
            => \A e \in Field(r.body, "error") :
                   ~includes(e, <<"Unsupported", "language">>)

\* The worker has registered, and a job of an advertised language has been
\* run and reported ACCEPTED.
C37_Witness ==
    /\ registered # {}
    /\ \E r \in sent :
          /\ r.delivery \in DOMAIN jobs
          /\ jobs[r.delivery].job.language \in capabilities
          /\ VerdictOf(r) = "ACCEPTED"

\* C38: under the contest scheduler, every contest whose end time has
\* passed is ENDED after the scheduler's next run, whatever status it had
\* before.
C38_EndedAfterTick ==
    (scheduler # NoNum /\ db.contest.endTime <= scheduler)
        => db.contest.status = "ENDED"

\* The number of times an entry of the dead-letter list has been retried:
\* an entry that was never requeued carries no attempts.
Retried(jobData) == IF jobData.attempts = NoNum THEN 0 ELSE jobData.attempts

\* C39: requeueDeadLetter loses no retryable job: every entry of the
\* dead-letter list that has been retried fewer than 3 times is on the
\* submission queue after requeueDeadLetter returns.
C39_NoRetryableJobLost ==
    [][requeueDeadLetter =>
          \A k \in DOMAIN redis.deadLetter :
              Retried(redis.deadLetter[k]) < 3
                  => redis.deadLetter[k].submissionId \in IdsOf(redis'.queue)]_vars

IntermediateVerdicts == {"pending", "compiling", "running", "verifying"}

\* C40: in the frontend's submission state, an update that carries an
\* intermediate verdict (pending, compiling, running, verifying) for a
\* submission leaves its id in pendingVerifications.
C40_IntermediateVerdictKeepsPending ==
    [][\A payload \in Payloads :
          (/\ payload.verdict \in IntermediateVerdicts
           /\ payload.id \in store.pendingVerifications
           /\ \/ updateSubmissionStatus(payload)
              \/ pollSubmissionStatusFulfilled(payload))
              => payload.id \in store'.pendingVerifications]_vars

====
